---- MODULE Spec2Model ----
(***************************************************************************)
(* The weekly pairing engine of src/matcher.py: run_matching_once and the  *)
(* functions it calls (_fetch_candidates, _paired_recently,                *)
(* _persist_pairs, _notify_pairs), with the e-mail helpers of              *)
(* src/email_sender.py that _notify_pairs uses.                            *)
(*                                                                         *)
(* Time is counted in ticks of half a day since an epoch that is a Monday  *)
(* 00:00 UTC, so that elapsed times that are not a whole number of days    *)
(* exist.  One run of the engine is in progress at a time.                 *)
(*                                                                         *)
(* render_template of src/email_sender.py is modelled on strings as        *)
(* sequences of characters.  The file queue between enqueue_action of      *)
(* src/backend.py and process_assignment_queue of src/client.py is         *)
(* modelled with one step per access of the file, the two being separate   *)
(* processes.                                                              *)
(*                                                                         *)
(* The manual trigger of src/api.py, run_matching_now, is modelled with    *)
(* one handler per request, suspended and resumed at its awaits, and the   *)
(* engine as its caller sees it.                                           *)
(***************************************************************************)
EXTENDS Integers, Sequences, FiniteSets, Bags, TLC

VARIABLES
    clock,            \* what datetime.now(timezone.utc) returns, in ticks
    users,            \* the users table: user_id -> profile (read only here)
    lookback_weeks,   \* parameter of run_matching_once (configuration)
    timezone_name,    \* parameter of run_matching_once, as its UTC offset in ticks
    pairings,         \* committed rows of table pairings
    weekly_matches,   \* committed rows of table weekly_matches (a bag of rows)
    pc,               \* position of the run
    cand,             \* the shuffled candidate list (user_ids)
    i,                \* index of the anchor in cand
    assigned,         \* set of assigned user_ids
    pairs,            \* list of pairs <<A, B>> formed so far
    options,          \* the anchor's shuffled option list
    k,                \* index of the option being examined
    rejected,         \* history: the history check has rejected an option in
                      \* the matching phase under way
    refused,          \* history: the pairs the history check has rejected in the
                      \* matching phase under way, each with the time it was asked
    now,              \* _persist_pairs' now
    week_monday,      \* _persist_pairs' week_monday (a day number)
    w,                \* index in pairs of the pair being written
    tx,               \* rows as the open transaction sees them, or NoTx
    n,                \* _notify_pairs: index in pairs of the pair being notified
    side,             \* _notify_pairs: 1 for member A, 2 for member B
    sends,            \* every send attempted by this run, in order
    result,           \* how the last call ended: Returned(v), Raised or NoResult
    runs,             \* number of runs started
    faults,           \* number of sends and template lookups that failed in this run
    txBegin,          \* history: the committed rows when this run's transaction
                      \* started and the number of its writes executed, or NoTx
    commits,          \* history: [pair, at, week, run] of every committed write
                      \* of a pair
    requests,         \* api.py: the run_matching_now handler of every request
    run_logs,         \* api.py: the rows of table run_logs, by id
    last_run_at,      \* api.py: settings' last_run_at, or NullTime
    template,         \* email_sender.py: render_template's template, a string
    variables,        \* email_sender.py: render_template's variables, the
                      \* dict's items in its order
    rendered,         \* email_sender.py: how render_template ended
    queue_file,       \* the items in /tmp/bot_queue.json (none when the file is
                      \* empty or absent)
    backend,          \* backend.py: the enqueue_action call under way
    bot,              \* client.py: process_assignment_queue's loop
    processed         \* client.py: the items the loop has processed, in order

vars == <<clock, users, lookback_weeks, timezone_name, pairings, weekly_matches,
          pc, cand, i, assigned, pairs, options, k, rejected, refused, now, week_monday,
          w, tx,
          n, side, sends, result, runs, faults, txBegin, commits,
          requests, run_logs, last_run_at, template, variables, rendered,
          queue_file, backend, bot, processed>>

apiVars == <<requests, run_logs, last_run_at>>
\* what the engine is given and what its caller keeps
renderVars == <<template, variables, rendered>>
queueVars == <<queue_file, backend, bot, processed>>
envVars == <<users, lookback_weeks, timezone_name, apiVars, renderVars, queueVars>>
dbVars == <<pairings, weekly_matches>>
histVars == <<txBegin, commits>>
loopVars == <<cand, i, assigned, pairs, options, k, rejected, refused>>
persistVars == <<now, week_monday, w, tx>>
notifyVars == <<n, side>>
worldVars == <<sends, faults, result, runs>>

----------------------------------------------------------------------------
(* Bounds of the model *)

NumUsers == 4
MaxRuns == 2
MaxTime == 15
MaxLookback == 1
MaxFaults == 2
NumRequests == 2
\* the configured minimum time between two runs, in ticks
Cooldown == 1

(* Program constants *)

DaysPerWeek == 7

(* Resolution of the model's clock: ticks per day *)
TicksPerDay == 2

Users == 1..NumUsers
None == "None"

\* no transaction is open
NoTx == [open |-> FALSE]

\* How the last call ended: it returned v, it raised, or it has not ended.
Returned(v) == [returned |-> v]
Raised == [raised |-> TRUE]
NoResult == [pending |-> TRUE]

WeekTicks == DaysPerWeek * TicksPerDay

\* Amounts by which the clock advances between two readings: half a day short
\* of a week, a week, and half a day more than a week.
TickSteps == {WeekTicks - 1, WeekTicks, WeekTicks + 1}

\* Offsets of the configured time zone from UTC, in ticks (UTC, UTC+12).
TimeZones == {0, 1}

----------------------------------------------------------------------------
(* The users table *)

\* communication_mode values: the three the code recognises, NULL, and one
\* it does not recognise.
CommModes == {"telegram_only", "email_only", "email+telegram", None, "other"}

Profile(mode, hasEmail) == [communication_mode |-> mode, email |-> hasEmail]

\* One fixture: user u's profile.
MixedProfiles ==
    <<Profile(None, TRUE), Profile("email_only", FALSE),
      Profile("telegram_only", TRUE), Profile("email+telegram", FALSE)>>

MixedUsers == [u \in Users |-> MixedProfiles[((u - 1) % Len(MixedProfiles)) + 1]]

----------------------------------------------------------------------------
(* Pure helpers *)

Range(s) == {s[x] : x \in DOMAIN s}

\* random.shuffle: every order of the elements of S is possible.
Shuffles(S) ==
    {f \in [1..Cardinality(S) -> S] : \A x, y \in DOMAIN f : x # y => f[x] # f[y]}

\* Variant: the pair as given, not sorted.
SortedPairAsGiven(a, b) == <<a, b>>

\* sorted([a, b])
SortedPair(a, b) == IF a <= b THEN <<a, b>> ELSE <<b, a>>

\* Variant: the elapsed days rounded up.
TimedeltaDaysRoundedUp(elapsed) == (elapsed + TicksPerDay - 1) \div TicksPerDay

\* timedelta.days of an elapsed time given in ticks (floor)
TimedeltaDays(elapsed) == elapsed \div TicksPerDay

\* a NULL last_matched_at (no tick is negative)
NullTime == 0 - 1

RowsFor(tbl, ua, ub) == {r \in tbl : r.user_a = ua /\ r.user_b = ub}

\* Variant: no history check.
PairedNever(a, b, weeks, tbl, t) == FALSE

\* Variant: the elapsed days compared with the weeks, without the division by 7.
PairedRecentlyDaysAsWeeks(a, b, weeks, tbl, t) ==
    LET key == SortedPair(a, b)
        rows == RowsFor(tbl, key[1], key[2])
    IN  IF rows = {} THEN FALSE
        ELSE LET row == CHOOSE r \in rows : TRUE
             IN  IF row.last_matched_at = NullTime THEN FALSE
                 ELSE TimedeltaDays(t - row.last_matched_at) < weeks

\* _paired_recently(pool, a, b, lookback_weeks) evaluated on table tbl at time t.
\* (days / 7.0 < float(weeks) is days < 7 * weeks for integers days, weeks.)
PairedRecently(a, b, weeks, tbl, t) ==
    LET key == SortedPair(a, b)
        rows == RowsFor(tbl, key[1], key[2])
    IN  IF rows = {} THEN FALSE
        ELSE LET row == CHOOSE r \in rows : TRUE
             IN  IF row.last_matched_at = NullTime THEN FALSE
                 ELSE TimedeltaDays(t - row.last_matched_at) < DaysPerWeek * weeks

\* _are_compatible
AreCompatible(a, b) == TRUE

\* Variant: the assigned set is not consulted.
NeverAssigned(u, asg) == FALSE

\* "if A["user_id"] in assigned" / "if B["user_id"] in assigned"
IsAssigned(u, asg) == u \in asg

\* Variant: the inner loop starts at the anchor itself, range(i, len(cand)).
OptionsOfFromAnchor(c, idx, asg) ==
    SelectSeq(SubSeq(c, idx, Len(c)),
              LAMBDA b : ~IsAssigned(b, asg) /\ AreCompatible(c[idx], b))

\* Variant: the inner loop skips the candidate next to the anchor,
\* range(i + 2, len(cand)).
OptionsOfSkippingNext(c, idx, asg) ==
    SelectSeq(SubSeq(c, idx + 2, Len(c)),
              LAMBDA b : ~IsAssigned(b, asg) /\ AreCompatible(c[idx], b))

\* The anchor's options before the shuffle: every later candidate that is not
\* assigned and is compatible with the anchor.
OptionsOf(c, idx, asg) ==
    SelectSeq(SubSeq(c, idx + 1, Len(c)),
              LAMBDA b : ~IsAssigned(b, asg) /\ AreCompatible(c[idx], b))

\* Variant: a plain INSERT, no conflict handling.
UpsertAppends(tbl, ua, ub, t) ==
    tbl \cup {[user_a |-> ua, user_b |-> ub, last_matched_at |-> t]}

\* INSERT INTO pairings ... ON CONFLICT (user_a, user_b) DO UPDATE SET
\* last_matched_at = EXCLUDED.last_matched_at
Upsert(tbl, ua, ub, t) ==
    IF RowsFor(tbl, ua, ub) # {}
    THEN {IF r.user_a = ua /\ r.user_b = ub
          THEN [r EXCEPT !.last_matched_at = t] ELSE r : r \in tbl}
    ELSE tbl \cup {[user_a |-> ua, user_b |-> ub, last_matched_at |-> t]}

WeeklyRow(wk, ua, ub) == [week_date |-> wk, user_a |-> ua, user_b |-> ub]

\* The unique key of weekly_matches: (week_date, user_a, user_b).
WeeklyConflict(bag, row) == BagIn(row, bag)

\* Variant: a plain INSERT, no conflict handling.
InsertWeeklyAlways(bag, row) == bag (+) SetToBag({row})

\* INSERT INTO weekly_matches ... ON CONFLICT DO NOTHING
InsertWeekly(bag, row) ==
    IF WeeklyConflict(bag, row) THEN bag ELSE bag (+) SetToBag({row})

\* Variant: the time zone is ignored, the UTC time is used as the local time.
AsTimezoneIgnored(t, tz) == t

\* now.astimezone(tz), in ticks of local time
AsTimezone(t, tz) == t + tz

\* dt.weekday(): Monday is 0 (day 0 of the epoch is a Monday)
Weekday(localTicks) == (localTicks \div TicksPerDay) % DaysPerWeek

\* _monday_of_week(dt_local): dt_local minus its weekday in days, at midnight
MondayOfWeek(localTicks) ==
    ((localTicks - Weekday(localTicks) * TicksPerDay) \div TicksPerDay) * TicksPerDay

\* datetime.date(): the day number
DateOf(localTicks) == localTicks \div TicksPerDay

\* Variant: the transaction's writes stay.
AfterRollbackKeepsWrites(committedRows, txRows) == txRows

\* What the tables hold after tr.rollback(): the committed rows.
AfterRollback(committedRows, txRows) == committedRows

ChatModes == {"telegram_only", "email+telegram"}

\* Variant: the e-mail branch also taken for telegram_only.
EmailModesWithChatOnly == {"email_only", "email+telegram", "telegram_only"}

EmailModes == {"email_only", "email+telegram"}

\* Variant: a communication_mode that is not one of the three recognised
\* values is taken for email+telegram.
CommModeUnknownIsBoth(u) ==
    IF users[u].communication_mode \in {"telegram_only", "email_only"}
    THEN users[u].communication_mode
    ELSE "email+telegram"

\* Variant: no default for an unset communication_mode.
CommModeNoDefault(u) == users[u].communication_mode

\* A.get('communication_mode') or 'email+telegram'
CommMode(u) ==
    IF users[u].communication_mode = None THEN "email+telegram"
    ELSE users[u].communication_mode

\* the member of pair idx that is being notified
Recipient == pairs[n][side]

WantsChat(u) == CommMode(u) \in ChatModes

\* Variant: the e-mail branch taken without an address on file.
WantsEmailWithoutAddress(u) == CommMode(u) \in EmailModes

WantsEmail(u) == CommMode(u) \in EmailModes /\ users[u].email

----------------------------------------------------------------------------
(* The handlers of run_matching_now *)

Requests == 1..NumRequests

\* A request that has not been handled yet: where its handler is, what
\* _can_run_now told it, its run_id, the pairs its engine call formed, the
\* count it returned, the exception's text, and the response's status.
NewRequest ==
    [at |-> "start", gate |-> "unasked", run_id |-> 0, formed |-> {}, count |-> 0,
     error |-> "", status |-> 0]

NoRequests ==
    /\ requests = [r \in Requests |-> NewRequest]
    /\ run_logs = <<>>
    /\ last_run_at = NullTime

\* render_template has not been called
NoRender ==
    /\ template = <<>>
    /\ variables = <<>>
    /\ rendered = NoResult

\* no enqueue_action call is under way (done counts the calls that have
\* returned), and process_assignment_queue is in its sleep
\* /tmp/bot_queue.json before anyone has written it
NoFile == [exists |-> FALSE, content |-> <<>>]
IdleBackend == [at |-> "idle", queue |-> <<>>, item |-> 0, done |-> 0]
SleepingBot == [at |-> "sleep", current_queue |-> <<>>]

NoQueue ==
    /\ queue_file = NoFile
    /\ backend = IdleBackend
    /\ bot = SleepingBot
    /\ processed = <<>>

----------------------------------------------------------------------------
(* The state machine *)

Lookbacks == 0..MaxLookback

Init ==
    /\ clock = 0
    /\ users = MixedUsers
    /\ NoRequests
    /\ NoRender
    /\ NoQueue
    /\ lookback_weeks \in Lookbacks
    /\ timezone_name \in TimeZones
    /\ pairings = {}
    /\ weekly_matches = EmptyBag
    /\ pc = "idle"
    /\ cand = <<>>
    /\ i = 1
    /\ assigned = {}
    /\ pairs = <<>>
    /\ options = <<>>
    /\ k = 1
    /\ rejected = FALSE
    /\ refused = {}
    /\ now = NullTime
    /\ week_monday = NullTime
    /\ w = 1
    /\ tx = NoTx
    /\ n = 1
    /\ side = 1
    /\ sends = <<>>
    /\ faults = 0
    /\ result = NoResult
    /\ runs = 0
    /\ txBegin = NoTx
    /\ commits = {}

\* run_matching_once has returned or raised: its frame, and with it every local
\* variable of the run, is gone.  What stays is what the run did to the world:
\* the tables, the sends, and what the caller got.
FrameGone ==
    /\ cand' = <<>>
    /\ i' = 1
    /\ assigned' = {}
    /\ pairs' = <<>>
    /\ options' = <<>>
    /\ k' = 1
    /\ rejected' = FALSE
    /\ refused' = {}
    /\ now' = NullTime
    /\ week_monday' = NullTime
    /\ w' = 1
    /\ n' = 1
    /\ side' = 1
    /\ pc' = "idle"

\* Time passes.  The clock is read by _paired_recently and by _persist_pairs
\* only, so it advances here only where a reading can follow.
Tick ==
    /\ pc \in {"idle", "walk", "persist"}
    /\ \E d \in TickSteps :
        /\ clock + d <= MaxTime
        /\ clock' = clock + d
    /\ UNCHANGED <<envVars, dbVars, histVars, pc, loopVars, persistVars, notifyVars,
                   worldVars>>

\* run_matching_once, lines 24-28: fetch the candidates (the users that are
\* subscribed and approved at this moment), shuffle them.
RunStart ==
    /\ pc = "idle"
    /\ runs < MaxRuns
    /\ \E S \in SUBSET DOMAIN users : \E c \in Shuffles(S) :
        cand' = c
    /\ i' = 1
    /\ assigned' = {}
    /\ pairs' = <<>>
    /\ sends' = <<>>
    /\ faults' = 0
    /\ result' = NoResult
    /\ runs' = runs + 1
    /\ txBegin' = NoTx
    /\ pc' = "anchor"
    /\ UNCHANGED <<clock, envVars, dbVars, commits, options, k, rejected, refused,
                   persistVars, notifyVars>>

\* lines 30-32: the anchor is already assigned
AnchorSkip ==
    /\ pc = "anchor"
    /\ i <= Len(cand)
    /\ IsAssigned(cand[i], assigned)
    /\ i' = i + 1
    /\ UNCHANGED <<clock, envVars, dbVars, histVars, pc, cand, assigned, pairs, options, k,
                   rejected, refused, persistVars, notifyVars, worldVars>>

\* lines 34-42: build the option list and shuffle it
AnchorOptions ==
    /\ pc = "anchor"
    /\ i <= Len(cand)
    /\ ~IsAssigned(cand[i], assigned)
    /\ \E o \in Shuffles(Range(OptionsOf(cand, i, assigned))) :
        options' = o
    /\ k' = 1
    /\ pc' = "walk"
    /\ UNCHANGED <<clock, envVars, dbVars, histVars, cand, i, assigned, pairs, rejected,
                   refused,
                   persistVars, notifyVars, worldVars>>

\* Variant: the walk ends at the first option that was paired recently with
\* the anchor, which stays unmatched.
WalkRejectedGivesUp ==
    /\ pc = "walk"
    /\ k <= Len(options)
    /\ PairedRecently(cand[i], options[k], lookback_weeks, pairings, clock)
    /\ rejected' = TRUE
    /\ refused' = refused \cup {[pair |-> {cand[i], options[k]}, at |-> clock]}
    /\ i' = i + 1
    /\ options' = <<>>
    /\ k' = 1
    /\ pc' = "anchor"
    /\ UNCHANGED <<clock, envVars, dbVars, histVars, cand, assigned, pairs,
                   persistVars, notifyVars, worldVars>>

\* lines 44-45: the option was paired recently with the anchor: try the next
WalkRejected ==
    /\ pc = "walk"
    /\ k <= Len(options)
    /\ PairedRecently(cand[i], options[k], lookback_weeks, pairings, clock)
    /\ k' = k + 1
    /\ rejected' = TRUE
    /\ refused' = refused \cup {[pair |-> {cand[i], options[k]}, at |-> clock]}
    /\ UNCHANGED <<clock, envVars, dbVars, histVars, pc, cand, i, assigned, pairs, options,
                   persistVars, notifyVars, worldVars>>

\* Variant: the chosen pair is written to the pairings table at once, in the
\* matching phase.
WalkChosenWritesAtOnce ==
    /\ pc = "walk"
    /\ k <= Len(options)
    /\ ~PairedRecently(cand[i], options[k], lookback_weeks, pairings, clock)
    /\ pairings' = Upsert(pairings, SortedPair(cand[i], options[k])[1],
                          SortedPair(cand[i], options[k])[2], clock)
    /\ assigned' = assigned \cup {cand[i], options[k]}
    /\ pairs' = Append(pairs, <<cand[i], options[k]>>)
    /\ i' = i + 1
    /\ options' = <<>>
    /\ k' = 1
    /\ pc' = "anchor"
    /\ UNCHANGED <<clock, envVars, weekly_matches, histVars, cand, rejected, refused,
                   persistVars, notifyVars, worldVars>>

\* lines 45-52: the first option not paired recently is chosen; the iteration
\* ends, and with it its option list (line 34 makes a new one)
WalkChosen ==
    /\ pc = "walk"
    /\ k <= Len(options)
    /\ ~PairedRecently(cand[i], options[k], lookback_weeks, pairings, clock)
    /\ assigned' = assigned \cup {cand[i], options[k]}
    /\ pairs' = Append(pairs, <<cand[i], options[k]>>)
    /\ i' = i + 1
    /\ options' = <<>>
    /\ k' = 1
    /\ pc' = "anchor"
    /\ UNCHANGED <<clock, envVars, dbVars, histVars, cand, rejected, refused,
                   persistVars, notifyVars, worldVars>>

\* Variant: an anchor left without an acceptable option is an error.
WalkExhaustedRaises ==
    /\ pc = "walk"
    /\ k > Len(options)
    /\ result' = Raised
    /\ FrameGone
    /\ UNCHANGED <<clock, envVars, dbVars, histVars, tx, sends, faults, runs>>

\* lines 44-49: the options are exhausted, the anchor stays unmatched
WalkExhausted ==
    /\ pc = "walk"
    /\ k > Len(options)
    /\ i' = i + 1
    /\ options' = <<>>
    /\ k' = 1
    /\ pc' = "anchor"
    /\ UNCHANGED <<clock, envVars, dbVars, histVars, cand, assigned, pairs, rejected,
                   refused,
                   persistVars, notifyVars, worldVars>>

\* line 45: the SELECT of _paired_recently fails; the exception leaves the run
WalkDbError ==
    /\ pc = "walk"
    /\ k <= Len(options)
    /\ result' = Raised
    /\ FrameGone
    /\ UNCHANGED <<clock, envVars, dbVars, histVars, tx, sends, faults, runs>>

\* lines 54-55: no pair was formed
ReturnZero ==
    /\ pc = "anchor"
    /\ i > Len(cand)
    /\ pairs = <<>>
    /\ result' = Returned(0)
    /\ FrameGone
    /\ UNCHANGED <<clock, envVars, dbVars, histVars, tx, sends, faults, runs>>

\* lines 54-57: pairs were formed, _persist_pairs is called
LoopEnd ==
    /\ pc = "anchor"
    /\ i > Len(cand)
    /\ pairs # <<>>
    /\ pc' = "persist"
    /\ rejected' = FALSE
    /\ refused' = {}
    /\ UNCHANGED <<clock, envVars, dbVars, histVars, cand, i, assigned, pairs, options, k,
                   persistVars, notifyVars, worldVars>>

\* _persist_pairs, lines 114-121: read the clock, compute the week's Monday,
\* acquire a connection and start the transaction
PersistBegin ==
    /\ pc = "persist"
    /\ now' = clock
    /\ week_monday' = DateOf(MondayOfWeek(AsTimezone(clock, timezone_name)))
    /\ tx' = [pairings |-> pairings, weekly_matches |-> weekly_matches]
    /\ txBegin' = [pairings |-> pairings, weekly_matches |-> weekly_matches, writes |-> 0]
    /\ w' = 1
    /\ pc' = "upsert"
    /\ UNCHANGED <<clock, envVars, dbVars, commits, loopVars, notifyVars, worldVars>>

\* lines 119-121: pool.acquire() or tr.start() fails, outside the try block
PersistBeginFails ==
    /\ pc = "persist"
    /\ result' = Raised
    /\ FrameGone
    /\ UNCHANGED <<clock, envVars, dbVars, histVars, tx, sends, faults, runs>>

\* lines 123-133: the upsert into pairings of pair w
PersistUpsert ==
    /\ pc = "upsert"
    /\ LET key == SortedPair(pairs[w][1], pairs[w][2])
       IN  tx' = [tx EXCEPT !.pairings = Upsert(tx.pairings, key[1], key[2], now)]
    /\ txBegin' = [txBegin EXCEPT !.writes = @ + 1]
    /\ pc' = "insert_weekly"
    /\ UNCHANGED <<clock, envVars, dbVars, commits, loopVars, now, week_monday, w,
                   notifyVars, worldVars>>

\* lines 134-141: the insert into weekly_matches of pair w
PersistInsertWeekly ==
    /\ pc = "insert_weekly"
    /\ LET key == SortedPair(pairs[w][1], pairs[w][2])
       IN  tx' = [tx EXCEPT !.weekly_matches =
                     InsertWeekly(tx.weekly_matches, WeeklyRow(week_monday, key[1], key[2]))]
    /\ txBegin' = [txBegin EXCEPT !.writes = @ + 1]
    /\ w' = w + 1
    /\ pc' = IF w + 1 > Len(pairs) THEN "commit" ELSE "upsert"
    /\ UNCHANGED <<clock, envVars, dbVars, commits, loopVars, now, week_monday,
                   notifyVars, worldVars>>

\* lines 125, 134, 142: a write or the commit raises
PersistWriteFails ==
    /\ pc \in {"upsert", "insert_weekly", "commit"}
    /\ pc' = "rollback"
    /\ UNCHANGED <<clock, envVars, dbVars, histVars, loopVars, persistVars, notifyVars,
                   worldVars>>

\* line 142: tr.commit(); then _notify_pairs is called (line 58)
PersistCommit ==
    /\ pc = "commit"
    /\ pairings' = tx.pairings
    /\ weekly_matches' = tx.weekly_matches
    /\ commits' = commits \cup
          {[pair |-> {pairs[x][1], pairs[x][2]}, at |-> now, week |-> week_monday,
            run |-> runs] :
              x \in DOMAIN pairs}
    /\ tx' = NoTx
    /\ n' = 1
    /\ side' = 1
    /\ pc' = "chat"
    /\ UNCHANGED <<clock, envVars, txBegin, loopVars, now, week_monday, w, worldVars>>

\* Variant: the exception is swallowed after the rollback and the run goes on
\* to _notify_pairs.
PersistRollbackSwallowed ==
    /\ pc = "rollback"
    /\ pairings' = AfterRollback(pairings, tx.pairings)
    /\ weekly_matches' = AfterRollback(weekly_matches, tx.weekly_matches)
    /\ tx' = NoTx
    /\ n' = 1
    /\ side' = 1
    /\ pc' = "chat"
    /\ UNCHANGED <<clock, envVars, histVars, loopVars, now, week_monday, w, worldVars>>

\* lines 143-145: tr.rollback(), then the exception leaves run_matching_once
PersistRollback ==
    /\ pc = "rollback"
    /\ pairings' = AfterRollback(pairings, tx.pairings)
    /\ weekly_matches' = AfterRollback(weekly_matches, tx.weekly_matches)
    /\ tx' = NoTx
    /\ result' = Raised
    /\ FrameGone
    /\ UNCHANGED <<clock, envVars, histVars, sends, faults, runs>>

\* _notify_pairs: after a recipient is done, the other member of the pair, then
\* the next pair, then "return len(pairs)" (line 59)
NextRecipient ==
    IF side = 1
    THEN /\ side' = 2
         /\ pc' = "chat"
         /\ UNCHANGED <<n, result, loopVars, now, week_monday, w>>
    ELSE IF n < Len(pairs)
    THEN /\ n' = n + 1
         /\ side' = 1
         /\ pc' = "chat"
         /\ UNCHANGED <<result, loopVars, now, week_monday, w>>
    ELSE /\ result' = Returned(Len(pairs))
         /\ FrameGone

Event(u, kind, outcome) == [to |-> u, kind |-> kind, ok |-> outcome]

\* the other member of the pair being notified
Counterpart == pairs[n][3 - side]

\* matcher.py lines 200-209, 263-272: the variables given to the template and
\* whose record each is taken from
TemplateVariables ==
    [user_name |-> "recipient", match_name |-> "counterpart",
     match_segment |-> "counterpart", match_affiliation |-> "counterpart",
     match_about |-> "counterpart", match_email |-> "counterpart",
     match_telegram |-> "counterpart", starter_questions |-> "starter_questions"]

\* Variant: the built-in e-mail gives the recipient's own address as the
\* counterpart's.
FallbackArgumentsOwnEmail ==
    [user_name |-> "recipient", match_name |-> "counterpart",
     match_segment |-> "counterpart", match_affiliation |-> "counterpart",
     match_about |-> "counterpart", match_email |-> "recipient",
     match_telegram |-> "counterpart", starter_questions |-> "starter_questions"]

\* matcher.py lines 221-230, 284-293: the arguments given to
\* create_random_coffee_email and whose record each is taken from
FallbackArguments ==
    [user_name |-> "recipient", match_name |-> "counterpart",
     match_segment |-> "counterpart", match_affiliation |-> "counterpart",
     match_about |-> "counterpart", match_email |-> "counterpart",
     match_telegram |-> "counterpart", starter_questions |-> "starter_questions"]

\* an e-mail to u about the counterpart, built from the given attributes
EmailEvent(u, kind, outcome, content) ==
    [to |-> u, kind |-> kind, ok |-> outcome, about |-> Counterpart, content |-> content]

\* lines 181, 244: the recipient's mode does not include the chat channel
NotifyChatSkip ==
    /\ pc = "chat"
    /\ ~WantsChat(Recipient)
    /\ pc' = "email"
    /\ UNCHANGED <<clock, envVars, dbVars, histVars, loopVars, persistVars, notifyVars,
                   worldVars>>

\* lines 191-192, 254-255: bot.send_message succeeds
NotifyChatSent ==
    /\ pc = "chat"
    /\ WantsChat(Recipient)
    /\ sends' = Append(sends, Event(Recipient, "chat", TRUE))
    /\ pc' = "email"
    /\ UNCHANGED <<clock, envVars, dbVars, histVars, loopVars, persistVars, notifyVars,
                   faults, result, runs>>

\* Variant: one try/except around the whole loop: the first exception ends the
\* notifications, and the count is returned.
NotifyChatFailedStops ==
    /\ pc = "chat"
    /\ WantsChat(Recipient)
    /\ faults < MaxFaults
    /\ faults' = faults + 1
    /\ sends' = Append(sends, Event(Recipient, "chat", FALSE))
    /\ result' = Returned(Len(pairs))
    /\ FrameGone
    /\ UNCHANGED <<clock, envVars, dbVars, histVars, tx, runs>>

\* Variant: the exception of bot.send_message is not caught.
NotifyChatFailedPropagates ==
    /\ pc = "chat"
    /\ WantsChat(Recipient)
    /\ faults < MaxFaults
    /\ faults' = faults + 1
    /\ sends' = Append(sends, Event(Recipient, "chat", FALSE))
    /\ result' = Raised
    /\ FrameGone
    /\ UNCHANGED <<clock, envVars, dbVars, histVars, tx, runs>>

\* lines 193-194, 256-257: bot.send_message raises; caught and printed
NotifyChatFailed ==
    /\ pc = "chat"
    /\ WantsChat(Recipient)
    /\ faults < MaxFaults
    /\ faults' = faults + 1
    /\ sends' = Append(sends, Event(Recipient, "chat", FALSE))
    /\ pc' = "email"
    /\ UNCHANGED <<clock, envVars, dbVars, histVars, loopVars, persistVars, notifyVars,
                   result, runs>>

\* lines 197, 260: no e-mail for this recipient
NotifyEmailSkip ==
    /\ pc = "email"
    /\ ~WantsEmail(Recipient)
    /\ NextRecipient
    /\ UNCHANGED <<clock, envVars, dbVars, histVars, tx, sends, faults, runs>>

\* send_templated_email, email_sender.py lines 97-101: get_email_template
\* returns the template, returns None, or raises (caught at matcher.py 237, 300)
NotifyTemplateLookup ==
    /\ pc = "email"
    /\ WantsEmail(Recipient)
    /\ \E outcome \in {"found", "missing", "error"} :
        /\ outcome = "error" => faults < MaxFaults
        /\ faults' = IF outcome = "error" THEN faults + 1 ELSE faults
        /\ sends' = Append(sends, Event(Recipient, "lookup", outcome))
        /\ IF outcome = "found"
           THEN /\ pc' = "template_send"
                /\ UNCHANGED <<n, side, result, loopVars, now, week_monday, w>>
           ELSE IF outcome = "missing"
           THEN /\ pc' = "fallback"
                /\ UNCHANGED <<n, side, result, loopVars, now, week_monday, w>>
           ELSE NextRecipient
    /\ UNCHANGED <<clock, envVars, dbVars, histVars, tx, runs>>

\* Variant: the built-in e-mail is sent after the template e-mail whatever
\* send_templated_email returned.
NotifyTemplateSendThenFallback ==
    /\ pc = "template_send"
    /\ \E ok \in BOOLEAN :
        /\ ~ok => faults < MaxFaults
        /\ faults' = IF ok THEN faults ELSE faults + 1
        /\ sends' = Append(sends, EmailEvent(Recipient, "template_email", ok, TemplateVariables))
        /\ pc' = "fallback"
        /\ UNCHANGED <<n, side, result, loopVars, now, week_monday, w>>
    /\ UNCHANGED <<clock, envVars, dbVars, histVars, tx, runs>>

\* email_sender.py lines 104-108 and 22-50: the rendered template is sent;
\* _send_email_sync returns True, or False when the SMTP delivery fails;
\* matcher.py lines 220, 283: "if not success" then the fallback is used
NotifyTemplateSend ==
    /\ pc = "template_send"
    /\ \E ok \in BOOLEAN :
        /\ ~ok => faults < MaxFaults
        /\ faults' = IF ok THEN faults ELSE faults + 1
        /\ sends' = Append(sends, EmailEvent(Recipient, "template_email", ok, TemplateVariables))
        /\ IF ok THEN NextRecipient
           ELSE /\ pc' = "fallback"
                /\ UNCHANGED <<n, side, result, loopVars, now, week_monday, w>>
    /\ UNCHANGED <<clock, envVars, dbVars, histVars, tx, runs>>

\* matcher.py lines 220-236, 283-299: the built-in e-mail is sent; the value
\* send_email returns is not used
NotifyFallback ==
    /\ pc = "fallback"
    /\ \E ok \in BOOLEAN :
        /\ ~ok => faults < MaxFaults
        /\ faults' = IF ok THEN faults ELSE faults + 1
        /\ sends' = Append(sends, EmailEvent(Recipient, "fallback_email", ok, FallbackArguments))
    /\ NextRecipient
    /\ UNCHANGED <<clock, envVars, dbVars, histVars, tx, runs>>

Next ==
    \/ Tick
    \/ RunStart
    \/ AnchorSkip
    \/ AnchorOptions
    \/ WalkRejected
    \/ WalkChosen
    \/ WalkExhausted
    \/ WalkDbError
    \/ ReturnZero
    \/ LoopEnd
    \/ PersistBegin
    \/ PersistBeginFails
    \/ PersistUpsert
    \/ PersistInsertWeekly
    \/ PersistWriteFails
    \/ PersistCommit
    \/ PersistRollback
    \/ NotifyChatSkip
    \/ NotifyChatSent
    \/ NotifyChatFailed
    \/ NotifyEmailSkip
    \/ NotifyTemplateLookup
    \/ NotifyTemplateSend
    \/ NotifyFallback

Spec == Init /\ [][Next]_vars

----------------------------------------------------------------------------
(* The same engine over other users tables *)

\* Before the first run: empty tables, no run under way.
EngineAtRest ==
    /\ clock = 0
    /\ pairings = {}
    /\ weekly_matches = EmptyBag
    /\ pc = "idle"
    /\ cand = <<>>
    /\ i = 1
    /\ assigned = {}
    /\ pairs = <<>>
    /\ options = <<>>
    /\ k = 1
    /\ rejected = FALSE
    /\ refused = {}
    /\ now = NullTime
    /\ week_monday = NullTime
    /\ w = 1
    /\ tx = NoTx
    /\ n = 1
    /\ side = 1
    /\ sends = <<>>
    /\ faults = 0
    /\ result = NoResult
    /\ runs = 0
    /\ txBegin = NoTx
    /\ commits = {}

FreshEngine ==
    /\ NoRequests
    /\ NoRender
    /\ NoQueue
    /\ EngineAtRest

NumRoutingUsers == 2

\* every communication_mode with and without an e-mail address on file
Profiles == {Profile(m, e) : m \in CommModes, e \in BOOLEAN}

\* A users table of NumRoutingUsers users with any profiles.
InitRouting ==
    /\ users \in [1..NumRoutingUsers -> Profiles]
    /\ lookback_weeks \in Lookbacks
    /\ timezone_name = 0
    /\ FreshEngine

SpecRouting == InitRouting /\ [][Next]_vars

\* Every user with communication_mode email+telegram and an address on file.
BothUsers == [u \in Users |-> Profile("email+telegram", TRUE)]

\* Two users, one reachable over chat only and one over e-mail only.
SingleChannelUsers ==
    [u \in 1..NumRoutingUsers |->
        IF u = 1 THEN Profile("telegram_only", FALSE) ELSE Profile("email_only", TRUE)]

\* The users table is one of the two above.  The tables after the runs so
\* far, the last of which returned: either no pair was ever committed, or one
\* run committed the pair of users 1 and 2 at time 0.  One run is left.
InitBoth ==
    /\ users \in {BothUsers, SingleChannelUsers}
    /\ NoRequests
    /\ NoRender
    /\ NoQueue
    /\ lookback_weeks \in Lookbacks
    /\ timezone_name = 0
    /\ clock = 0
    /\ \E earlier \in BOOLEAN :
        /\ pairings = IF earlier THEN Upsert({}, 1, 2, 0) ELSE {}
        /\ weekly_matches =
              IF earlier THEN InsertWeekly(EmptyBag, WeeklyRow(0, 1, 2)) ELSE EmptyBag
        /\ commits =
              IF earlier
              THEN {[pair |-> {1, 2}, at |-> 0, week |-> 0, run |-> MaxRuns - 1]}
              ELSE {}
        /\ result = IF earlier THEN Returned(1) ELSE Returned(0)
    /\ runs = MaxRuns - 1
    /\ pc = "idle"
    /\ cand = <<>>
    /\ i = 1
    /\ assigned = {}
    /\ pairs = <<>>
    /\ options = <<>>
    /\ k = 1
    /\ rejected = FALSE
    /\ refused = {}
    /\ now = NullTime
    /\ week_monday = NullTime
    /\ w = 1
    /\ tx = NoTx
    /\ n = 1
    /\ side = 1
    /\ sends = <<>>
    /\ faults = 0
    /\ txBegin = NoTx

SpecBoth == InitBoth /\ [][Next]_vars

----------------------------------------------------------------------------
(* _paired_recently as a function of its inputs: the arguments a, b and       *)
(* lookback_weeks, the table it reads and the clock it reads.                 *)

MaxRows == 1
MaxWeeksArg == 2

\* last_matched_at values of the rows of the input tables
StampsPaired == {NullTime, 0, 1}

\* the clock readings: up to half a day past the longest lookback window that
\* starts at the latest stamp
ClocksPaired == 0..(MaxWeeksArg * WeekTicks + 2)

\* rows as _persist_pairs writes them: user_a < user_b
RowsPaired ==
    {r \in [user_a : Users, user_b : Users, last_matched_at : StampsPaired] :
        r.user_a < r.user_b}

RECURSIVE TablesPaired(_)
\* tables of at most m rows, one row per (user_a, user_b) at most
TablesPaired(m) ==
    IF m = 0 THEN {{}}
    ELSE LET smaller == TablesPaired(m - 1)
         IN  smaller \cup
             UNION {{T \cup {r} : r \in {q \in RowsPaired :
                                      RowsFor(T, q.user_a, q.user_b) = {}}} :
                    T \in smaller}

InitPaired ==
    /\ clock \in ClocksPaired
    /\ users = MixedUsers
    /\ NoRequests
    /\ NoRender
    /\ NoQueue
    /\ lookback_weeks \in 0..MaxWeeksArg
    /\ timezone_name = 0
    /\ pairings \in TablesPaired(MaxRows)
    /\ weekly_matches = EmptyBag
    /\ pc = "paired_call"
    /\ cand \in {<<a, b>> : a \in Users, b \in Users}
    /\ i = 1
    /\ assigned = {}
    /\ pairs = <<>>
    /\ options = <<>>
    /\ k = 1
    /\ rejected = FALSE
    /\ refused = {}
    /\ now = NullTime
    /\ week_monday = NullTime
    /\ w = 1
    /\ tx = NoTx
    /\ n = 1
    /\ side = 1
    /\ sends = <<>>
    /\ faults = 0
    /\ result = NoResult
    /\ runs = 0
    /\ txBegin = NoTx
    /\ commits = {}

\* one call _paired_recently(pool, cand[1], cand[2], lookback_weeks)
CallPairedRecently ==
    /\ pc = "paired_call"
    /\ result' = Returned(PairedRecently(cand[1], cand[2], lookback_weeks, pairings, clock))
    /\ pc' = "paired_done"
    /\ UNCHANGED <<clock, envVars, dbVars, histVars, loopVars, persistVars, notifyVars,
                   sends, faults, runs>>

NextPaired == CallPairedRecently

SpecPaired == InitPaired /\ [][NextPaired]_vars

----------------------------------------------------------------------------
(* Properties *)

NotifyPcs == {"chat", "email", "template_send", "fallback"}
TxPcs == {"upsert", "insert_weekly", "commit", "rollback"}

Members(prs) == {prs[x][s] : x \in DOMAIN prs, s \in {1, 2}}
Lower(a, b) == IF a < b THEN a ELSE b
Higher(a, b) == IF a < b THEN b ELSE a
LowerOf(S) == CHOOSE x \in S : \A y \in S : x <= y
HigherOf(S) == CHOOSE x \in S : \A y \in S : y <= x

\* The recently-paired predicate as the specification words it: a record
\* exists for the canonical pair, its timestamp is not null, and less than
\* weeks * 7 days have elapsed since it.
RecordedWithin(a, b, weeks, tbl, t) ==
    \E r \in tbl :
        /\ r.user_a = Lower(a, b)
        /\ r.user_b = Higher(a, b)
        /\ r.last_matched_at # NullTime
        /\ t - r.last_matched_at < weeks * WeekTicks

CommittedThisRun == \E c \in commits : c.run = runs

Failed(e) == IF e.kind = "lookup" THEN e.ok # "found" ELSE e.ok = FALSE

\* C1: the pairs a run forms are disjoint, after every iteration of the anchor
\* loop: no user_id occurs in two pairs or twice in one, the assigned set is
\* exactly the members of the pairs formed so far, and neither the anchor
\* whose options are walked nor any of these options is assigned.
C1_PairsDisjoint ==
    /\ \A x, y \in DOMAIN pairs : \A s, t \in {1, 2} :
          pairs[x][s] = pairs[y][t] => (x = y /\ s = t)
    /\ assigned = Members(pairs)
    /\ pc = "walk" => /\ cand[i] \notin assigned
                      /\ Range(options) \cap assigned = {}

\* two pairs are formed and an assigned candidate is still ahead in the list
C1_Witness ==
    /\ pc = "anchor"
    /\ Len(pairs) = 2
    /\ i <= Len(cand)
    /\ cand[i] \in assigned

\* C2: while the run forms its pairs, no pair formed is one for which a
\* record says that less than lookback_weeks * 7 days have elapsed.
C2_NoRecentPair ==
    pc \in {"anchor", "walk", "persist"} =>
        \A x \in DOMAIN pairs :
            ~RecordedWithin(pairs[x][1], pairs[x][2], lookback_weeks, pairings, clock)

\* the walk has passed an option whose record with the anchor is
\* (lookback_weeks - 1) * 7 days old, and goes on to another option
C2_Witness ==
    /\ pc = "walk"
    /\ lookback_weeks >= 1
    /\ 2 <= k
    /\ k <= Len(options)
    /\ \E r \in pairings :
        /\ {r.user_a, r.user_b} = {cand[i], options[k - 1]}
        /\ r.last_matched_at = clock - (lookback_weeks - 1) * WeekTicks

\* C3: with lookback_weeks >= 1, two runs that both committed the same pair
\* are at least lookback_weeks * 7 days apart (by the time each run wrote).
C3_NoRepeatWithinLookback ==
    lookback_weeks >= 1 =>
        \A c1, c2 \in commits :
            (c1.pair = c2.pair /\ c1.run < c2.run) =>
                c2.at - c1.at >= lookback_weeks * WeekTicks

\* the same pair is committed by two runs
C3_Witness ==
    /\ lookback_weeks >= 1
    /\ \E c1, c2 \in commits : c1.pair = c2.pair /\ c1.run < c2.run

\* C4: _paired_recently(a, b, weeks) returns what _paired_recently(b, a, weeks)
\* returns, for every table, clock reading and weeks.
C4_Symmetric ==
    pc = "paired_done" =>
        result = Returned(PairedRecently(cand[2], cand[1], lookback_weeks, pairings, clock))

\* the call with the larger identity first found the record
C4_Witness ==
    /\ pc = "paired_done"
    /\ cand[1] > cand[2]
    /\ result = Returned(TRUE)

\* C5: _paired_recently returns true exactly when a record exists for the
\* canonical pair with a non-null timestamp and less than weeks * 7 days have
\* elapsed; false without a record and false when exactly weeks * 7 days have
\* elapsed; also for elapsed times that are not whole days.
C5_MatchesDefinition ==
    pc = "paired_done" =>
        result = Returned(RecordedWithin(cand[1], cand[2], lookback_weeks, pairings, clock))

\* true half a day before the window ends
C5_Witness ==
    /\ pc = "paired_done"
    /\ lookback_weeks >= 1
    /\ result = Returned(TRUE)
    /\ \E r \in pairings :
        /\ r.user_a = Lower(cand[1], cand[2])
        /\ r.user_b = Higher(cand[1], cand[2])
        /\ r.last_matched_at # NullTime
        /\ clock - r.last_matched_at = lookback_weeks * WeekTicks - 1

\* C6: pairings holds one record per unordered pair at most, user_a < user_b in
\* every record, a record for every pair ever committed and for no other, and
\* its last_matched_at is the now of the latest committed persist of the pair.
C6_OneRecordPerPair ==
    /\ \A r \in pairings : r.user_a < r.user_b
    /\ \A r1, r2 \in pairings :
          {r1.user_a, r1.user_b} = {r2.user_a, r2.user_b} => r1 = r2
    /\ \A r \in pairings : \E c \in commits : c.pair = {r.user_a, r.user_b}
    /\ \A c \in commits :
          (\A d \in commits : d.pair = c.pair => d.run <= c.run) =>
              \E r \in pairings : /\ {r.user_a, r.user_b} = c.pair
                                  /\ r.last_matched_at = c.at

\* a pair persisted before is persisted again, later, larger identity first
C6_Witness ==
    /\ pc \in NotifyPcs
    /\ \E x \in DOMAIN pairs : \E c \in commits :
        /\ pairs[x][1] > pairs[x][2]
        /\ c.pair = {pairs[x][1], pairs[x][2]}
        /\ c.run < runs
        /\ c.at < now

\* C7: weekly_matches holds exactly one row for every (week_date, user_a,
\* user_b) ever committed and no other row: a second insert of a key adds
\* nothing, and no row is changed or removed.
C7_WeeklyDeduplicated ==
    /\ \A r \in BagToSet(weekly_matches) : CopiesIn(r, weekly_matches) = 1
    /\ BagToSet(weekly_matches) =
          {WeeklyRow(c.week, LowerOf(c.pair), HigherOf(c.pair)) : c \in commits}
    /\ pc \in TxPcs =>
          \A r \in BagToSet(tx.weekly_matches) : CopiesIn(r, tx.weekly_matches) = 1

\* a pair is committed a second time in the same week
C7_Witness ==
    /\ pc \in NotifyPcs
    /\ \E x \in DOMAIN pairs : \E c \in commits :
        /\ c.pair = {pairs[x][1], pairs[x][2]}
        /\ c.run < runs
        /\ c.week = week_monday

\* C8: while the transaction is open and after it failed, the tables hold
\* what they held when it started; after the commit they hold the writes of
\* every pair of the batch.
C8_AllOrNothing ==
    /\ pc \in TxPcs =>
          /\ pairings = txBegin.pairings
          /\ weekly_matches = txBegin.weekly_matches
    /\ (result = Raised /\ txBegin # NoTx) =>
          /\ pairings = txBegin.pairings
          /\ weekly_matches = txBegin.weekly_matches
    /\ pc \in NotifyPcs =>
          \A x \in DOMAIN pairs :
              LET ua == Lower(pairs[x][1], pairs[x][2])
                  ub == Higher(pairs[x][1], pairs[x][2])
              IN  /\ [user_a |-> ua, user_b |-> ub, last_matched_at |-> now] \in pairings
                  /\ BagIn(WeeklyRow(week_monday, ua, ub), weekly_matches)

\* the transaction failed after both writes of the first pair and a write of
\* the second
C8_Witness ==
    /\ result = Raised
    /\ txBegin # NoTx
    /\ txBegin.writes >= 3

\* C9: notifications are sent only after the commit of the run; when the
\* transaction fails the run raises and has sent nothing.
C9_PersistBeforeNotify ==
    /\ sends # <<>> => CommittedThisRun
    /\ pc \in NotifyPcs => (CommittedThisRun /\ tx = NoTx)
    /\ (pc = "idle" /\ txBegin # NoTx /\ ~CommittedThisRun) => result = Raised
    /\ result = Raised => sends = <<>>

\* the transaction of the run failed and the run is over
C9_Witness ==
    /\ pc = "idle"
    /\ txBegin # NoTx
    /\ ~CommittedThisRun
    /\ result = Raised
    /\ sends = <<>>

\* C10: a run that committed returns the number of pairs it committed,
\* whatever failed while notifying; nothing is raised after the commit.
C10_ReturnsPairCount ==
    /\ (pc = "idle" /\ CommittedThisRun) =>
          result = Returned(Cardinality({c \in commits : c.run = runs}))
    /\ pc \in NotifyPcs => result = NoResult

\* the run returned after two or more attempts, all of which failed
C10_Witness ==
    /\ pc = "idle"
    /\ CommittedThisRun
    /\ Len(sends) >= 2
    /\ \A e \in Range(sends) : Failed(e)

\* the members of the pairs this run committed
ThisRunMembers == UNION {c.pair : c \in {d \in commits : d.run = runs}}

EventsTo(u, kind) == {x \in DOMAIN sends : sends[x].to = u /\ sends[x].kind = kind}

\* the attempt threw or returned False
Unsuccessful(e) == IF e.kind = "lookup" THEN e.ok = "error" ELSE e.ok = FALSE

EmailKinds == {"lookup", "template_email", "fallback_email"}

ChatDelivered(u) == \E x \in EventsTo(u, "chat") : sends[x].ok

EmailDelivered(u) ==
    \E x \in EventsTo(u, "template_email") \cup EventsTo(u, "fallback_email") : sends[x].ok

\* C11: when a committed run has returned, every member of every pair has had
\* its chat send attempted exactly once if the mode asks for chat and its
\* e-mail path entered exactly once if the mode asks for e-mail and an address
\* is on file, whatever failed for anybody else or on the other channel; a
\* channel on which nothing failed for the recipient has delivered.
C11_NotifyIsolated ==
    (pc = "idle" /\ CommittedThisRun) =>
        \A u \in ThisRunMembers :
            /\ WantsChat(u) =>
                  /\ Cardinality(EventsTo(u, "chat")) = 1
                  /\ (\A x \in EventsTo(u, "chat") : ~Unsuccessful(sends[x]))
                        => ChatDelivered(u)
            /\ WantsEmail(u) =>
                  /\ Cardinality(EventsTo(u, "lookup")) = 1
                  /\ (\A x \in DOMAIN sends :
                          (sends[x].to = u /\ sends[x].kind \in EmailKinds)
                              => ~Unsuccessful(sends[x]))
                        => EmailDelivered(u)

\* two pairs; the first recipient's chat send threw and nothing else failed
C11_Witness ==
    /\ pc = "idle"
    /\ result = Returned(2)
    /\ Cardinality(ThisRunMembers) = 4
    /\ sends # <<>>
    /\ sends[1].kind = "chat"
    /\ Unsuccessful(sends[1])
    /\ \A x \in DOMAIN sends : x > 1 => ~Unsuccessful(sends[x])
    /\ Cardinality({u \in ThisRunMembers : ChatDelivered(u)}) >= 2

\* C12: nothing is attempted for a recipient whose mode is email_only and who
\* has no e-mail address on file.
C12_EmailOnlyNoAddress ==
    \A x \in DOMAIN sends :
        ~(/\ users[sends[x].to].communication_mode = "email_only"
          /\ ~users[sends[x].to].email)

\* a run has paired such a user, notified and returned
C12_Witness ==
    /\ pc = "idle"
    /\ result = Returned(1)
    /\ \E u \in ThisRunMembers :
        /\ users[u].communication_mode = "email_only"
        /\ ~users[u].email
    /\ sends # <<>>

\* C13: for a recipient whose mode is telegram_only only chat sends are
\* attempted, and when the run has returned exactly one, with or without an
\* address on file, whether or not the chat send failed.
C13_ChatOnly ==
    /\ \A x \in DOMAIN sends :
          users[sends[x].to].communication_mode = "telegram_only"
              => sends[x].kind = "chat"
    /\ (pc = "idle" /\ CommittedThisRun) =>
          \A u \in ThisRunMembers :
              users[u].communication_mode = "telegram_only"
                  => Cardinality(EventsTo(u, "chat")) = 1

\* a telegram_only recipient with an address on file whose chat send failed
C13_Witness ==
    /\ pc = "idle"
    /\ CommittedThisRun
    /\ \E u \in ThisRunMembers :
        /\ users[u].communication_mode = "telegram_only"
        /\ users[u].email
        /\ \E x \in EventsTo(u, "chat") : ~sends[x].ok

\* C14: a recipient with no communication_mode and one with email+telegram
\* get the same: one chat send, and the e-mail path exactly when an address is
\* on file.
C14_UnsetIsBoth ==
    (pc = "idle" /\ CommittedThisRun) =>
        \A u \in ThisRunMembers :
            users[u].communication_mode \in {None, "email+telegram"} =>
                /\ Cardinality(EventsTo(u, "chat")) = 1
                /\ Cardinality(EventsTo(u, "lookup")) = (IF users[u].email THEN 1 ELSE 0)
                /\ users[u].email \/
                      \A x \in DOMAIN sends : sends[x].to = u => sends[x].kind = "chat"

\* a pair of two users without communication_mode, one with an address
C14_Witness ==
    /\ pc = "idle"
    /\ CommittedThisRun
    /\ \A u \in ThisRunMembers : users[u].communication_mode = None
    /\ \E u, v \in ThisRunMembers :
        /\ users[u].email
        /\ ~users[v].email
        /\ EventsTo(u, "lookup") # {}
        /\ EventsTo(v, "chat") # {}

\* the e-mails sent to u, from the template or built in
EmailsTo(u) == EventsTo(u, "template_email") \cup EventsTo(u, "fallback_email")

\* the run's transaction began on an empty pairings table
NoPriorHistory == txBegin # NoTx /\ txBegin.pairings = {}

\* C15: four candidates, all email+telegram with an address, no pairing
\* history: whatever the shuffles, the anchor loop ends with two disjoint pairs
\* covering the four; after the commit the pairings table holds exactly two
\* records, those of the two pairs, stamped with the run's time; and when the
\* run has returned without any failed send it returned 2 and every one of
\* the four got exactly one chat message and exactly one e-mail.
C15_EndToEnd ==
    users = BothUsers =>
        /\ (pc = "anchor" /\ i > Len(cand) /\ Len(cand) = 4 /\ pairings = {}) =>
              /\ Len(pairs) = 2
              /\ Members(pairs) = Range(cand)
              /\ pairs[1][1] # pairs[1][2]
              /\ pairs[2][1] # pairs[2][2]
        /\ (pc \in NotifyPcs /\ Len(cand) = 4 /\ NoPriorHistory) =>
              /\ ThisRunMembers = Range(cand)
              /\ Cardinality(pairings) = 2
              /\ \A r \in pairings :
                    /\ r.last_matched_at = now
                    /\ \E x \in DOMAIN pairs :
                          <<r.user_a, r.user_b>> = SortedPair(pairs[x][1], pairs[x][2])
        /\ (/\ pc = "idle"
            /\ Cardinality(ThisRunMembers) = 4
            /\ NoPriorHistory
            /\ \A x \in DOMAIN sends : ~Unsuccessful(sends[x])) =>
              /\ result = Returned(2)
              /\ Cardinality(pairings) = 2
              /\ \A r \in pairings : \E c \in commits :
                    /\ c.run = runs
                    /\ c.pair = {r.user_a, r.user_b}
                    /\ c.at = r.last_matched_at
              /\ \A u \in ThisRunMembers :
                    /\ Cardinality(EventsTo(u, "chat")) = 1
                    /\ ChatDelivered(u)
                    /\ Cardinality(EmailsTo(u)) = 1
                    /\ EmailDelivered(u)

\* the run over the four has returned with nothing failed; one e-mail came
\* from the template and one was the built-in one
C15_Witness ==
    /\ users = BothUsers
    /\ pc = "idle"
    /\ Cardinality(ThisRunMembers) = 4
    /\ NoPriorHistory
    /\ result = Returned(2)
    /\ \A x \in DOMAIN sends : ~Unsuccessful(sends[x])
    /\ \E u, v \in ThisRunMembers :
        /\ EventsTo(u, "template_email") # {}
        /\ EventsTo(v, "fallback_email") # {}

\* the anchor loop of lines 30-52 has ended
LoopDone == pc = "anchor" /\ i > Len(cand)

\* no row of the pairings table joins two of the candidates
NoRecordAmong(S) == \A r \in pairings : ~({r.user_a, r.user_b} \subseteq S)

\* C16: when no pairing record joins two of the n candidates, the anchor loop
\* ends with n div 2 pairs and n mod 2 candidates unmatched, whatever the
\* shuffles, and no error has been raised; with three candidates that is one
\* pair and one candidate left.
C16_FloorHalf ==
    (LoopDone /\ NoRecordAmong(Range(cand))) =>
        /\ Len(pairs) = Len(cand) \div 2
        /\ Cardinality(Range(cand) \ Members(pairs)) = Len(cand) % 2
        /\ Len(cand) = 3 =>
              Len(pairs) = 1 /\ Cardinality(Range(cand) \ Members(pairs)) = 1
        /\ result = NoResult

\* three candidates, none recorded with another while the table has a row
\* for one of them: one pair, one left
C16_Witness ==
    /\ LoopDone
    /\ Len(cand) = 3
    /\ pairings # {}
    /\ NoRecordAmong(Range(cand))
    /\ Len(pairs) = 1
    /\ Cardinality(Range(cand) \ Members(pairs)) = 1

\* the two-element sets of members of S
PairsOver(S) == {p \in SUBSET S : Cardinality(p) = 2}

\* the pair is compatible and, asked at time t, not recently paired
AllowedAt(p, t) ==
    /\ AreCompatible(LowerOf(p), HigherOf(p))
    /\ ~RecordedWithin(LowerOf(p), HigherOf(p), lookback_weeks, pairings, t)

\* the sets of pairwise disjoint pairs taken from P
DisjointSets(P) == {M \in SUBSET P : \A p, q \in M : p # q => p \cap q = {}}

\* C17 as stated: when the anchor loop has ended, no set of disjoint pairs of
\* candidates that are all compatible and not recently paired (asked at any
\* time up to now, so not because time went by during the run) has more pairs
\* than the run formed.
C17_Maximum ==
    LoopDone =>
        \A M \in DisjointSets({p \in PairsOver(Range(cand)) :
                                  \A t \in 0..clock : AllowedAt(p, t)}) :
            Cardinality(M) <= Len(pairs)

\* C17 amended: the same bound holds in every run in which the history check
\* rejected no option of any anchor.
C17_MaximumUnlessRejected ==
    (LoopDone /\ ~rejected) =>
        \A M \in DisjointSets({p \in PairsOver(Range(cand)) : AllowedAt(p, clock)}) :
            Cardinality(M) <= Len(pairs)

\* four candidates, two of them recently paired with each other, and the
\* shuffles led the run past that pair: two pairs
C17_Witness ==
    /\ LoopDone
    /\ ~rejected
    /\ Len(cand) = 4
    /\ Len(pairs) = 2
    /\ \E p \in PairsOver(Range(cand)) : ~AllowedAt(p, clock)

----------------------------------------------------------------------------
(* run_matching_now, api.py lines 121-135, one handler per request.  The    *)
(* handler is suspended at each await, where the handlers of other         *)
(* requests run.  The engine is what its caller sees of run_matching_once: *)
(* it forms pairs that are not recently paired, commits them in one        *)
(* transaction, notifies and returns their number, or raises with nothing  *)
(* committed.                                                              *)

\* _can_run_now: the minimum time since the last run has elapsed
CanRunNow(t, last) == last = NullTime \/ t - last >= Cooldown

\* _log_run_start: a new row of run_logs; its id is its position
LogRunStart(logs, run_type, user_id, t) ==
    Append(logs, [run_type |-> run_type, triggered_by |-> user_id, started_at |-> t,
                  finished_at |-> NullTime, pairs_count |-> 0, status |-> "running",
                  error_text |-> "", outcomes |-> 0])

\* The time of the last run after _log_run_start at time t: a run counts as
\* the last run from its logged start.
LastRunAfterStart(last, t) == t

\* _log_run_finish: the outcome is written to the row of run_id
LogRunFinish(logs, run_id, count, ok, error_text, t) ==
    [logs EXCEPT ![run_id] =
        [@ EXCEPT !.finished_at = t,
                  !.pairs_count = count,
                  !.status = IF ok THEN "success" ELSE "failed",
                  !.error_text = error_text,
                  !.outcomes = @ + 1]]

engineVars ==
    <<pc, loopVars, persistVars, notifyVars, sends, faults, result, runs, txBegin>>

\* Variant: the handler goes on after a refusal; the return of line 124 is
\* missing.
GateRefusesAndGoesOn(r) ==
    /\ requests[r].at = "start"
    /\ ~CanRunNow(clock, last_run_at)
    /\ requests' = [requests EXCEPT ![r].gate = "refused", ![r].at = "passed"]
    /\ UNCHANGED <<clock, users, lookback_weeks, timezone_name, renderVars, queueVars, run_logs, last_run_at,
                   dbVars, commits, engineVars>>

\* lines 122-124: _can_run_now says no; 429
GateRefuses(r) ==
    /\ requests[r].at = "start"
    /\ ~CanRunNow(clock, last_run_at)
    /\ requests' = [requests EXCEPT ![r].gate = "refused", ![r].status = 429,
                                    ![r].at = "done"]
    /\ UNCHANGED <<clock, users, lookback_weeks, timezone_name, renderVars, queueVars, run_logs, last_run_at,
                   dbVars, commits, engineVars>>

\* lines 122-123: _can_run_now says yes
GatePasses(r) ==
    /\ requests[r].at = "start"
    /\ CanRunNow(clock, last_run_at)
    /\ requests' = [requests EXCEPT ![r].gate = "passed", ![r].at = "passed"]
    /\ UNCHANGED <<clock, users, lookback_weeks, timezone_name, renderVars, queueVars, run_logs, last_run_at,
                   dbVars, commits, engineVars>>

\* lines 126-130: the start of the run is logged, which makes this the last
\* run, and the engine is called
StartRun(r) ==
    /\ requests[r].at = "passed"
    /\ run_logs' = LogRunStart(run_logs, "manual", r, clock)
    /\ last_run_at' = LastRunAfterStart(last_run_at, clock)
    /\ requests' = [requests EXCEPT ![r].run_id = Len(run_logs) + 1, ![r].at = "engine"]
    /\ UNCHANGED <<clock, users, lookback_weeks, timezone_name, renderVars, queueVars, dbVars, commits,
                   engineVars>>

\* matcher.py lines 24-52: the engine forms pairs, none of them paired
\* recently
EngineFormsPairs(r) ==
    /\ requests[r].at = "engine"
    /\ \E M \in DisjointSets(PairsOver(DOMAIN users)) :
        /\ M # {}
        /\ \A p \in M :
              /\ AreCompatible(LowerOf(p), HigherOf(p))
              /\ ~PairedRecently(LowerOf(p), HigherOf(p), lookback_weeks, pairings, clock)
        /\ requests' = [requests EXCEPT ![r].formed = M, ![r].at = "persist"]
    /\ UNCHANGED <<clock, users, lookback_weeks, timezone_name, renderVars, queueVars, run_logs, last_run_at,
                   dbVars, commits, engineVars>>

\* matcher.py lines 54-55: no pair was formed, the engine returns 0
EngineReturnsZero(r) ==
    /\ requests[r].at = "engine"
    /\ requests' = [requests EXCEPT ![r].count = 0, ![r].at = "returned"]
    /\ UNCHANGED <<clock, users, lookback_weeks, timezone_name, renderVars, queueVars, run_logs, last_run_at,
                   dbVars, commits, engineVars>>

\* _persist_pairs' writes of a set of pairs, in any order
RECURSIVE UpsertAll(_, _, _)
UpsertAll(tbl, M, t) ==
    IF M = {} THEN tbl
    ELSE LET p == CHOOSE q \in M : TRUE
         IN  UpsertAll(Upsert(tbl, LowerOf(p), HigherOf(p), t), M \ {p}, t)

RECURSIVE InsertWeeklyAll(_, _, _)
InsertWeeklyAll(bag, M, wk) ==
    IF M = {} THEN bag
    ELSE LET p == CHOOSE q \in M : TRUE
         IN  InsertWeeklyAll(InsertWeekly(bag, WeeklyRow(wk, LowerOf(p), HigherOf(p))),
                             M \ {p}, wk)

\* matcher.py lines 114-142: the transaction of _persist_pairs commits
EnginePersists(r) ==
    /\ requests[r].at = "persist"
    /\ LET wk == DateOf(MondayOfWeek(AsTimezone(clock, timezone_name)))
           M == requests[r].formed
       IN  /\ pairings' = UpsertAll(pairings, M, clock)
           /\ weekly_matches' = InsertWeeklyAll(weekly_matches, M, wk)
           /\ commits' = commits \cup
                 {[pair |-> p, at |-> clock, week |-> wk, run |-> requests[r].run_id] :
                     p \in M}
    /\ requests' = [requests EXCEPT ![r].at = "notify"]
    /\ UNCHANGED <<clock, users, lookback_weeks, timezone_name, renderVars, queueVars, run_logs, last_run_at,
                   engineVars>>

\* matcher.py lines 58-59: the notifications are over, whatever failed in
\* them, and the engine returns the number of pairs
EngineReturns(r) ==
    /\ requests[r].at = "notify"
    /\ requests' = [requests EXCEPT ![r].count = Cardinality(requests[r].formed),
                                    ![r].at = "returned"]
    /\ UNCHANGED <<clock, users, lookback_weeks, timezone_name, renderVars, queueVars, run_logs, last_run_at,
                   dbVars, commits, engineVars>>

\* matcher.py lines 24, 45, 119-145: a query or the transaction fails; the
\* engine raises with nothing committed
EngineRaises(r) ==
    /\ requests[r].at \in {"engine", "persist"}
    /\ requests' = [requests EXCEPT ![r].error = "database error", ![r].at = "raised"]
    /\ UNCHANGED <<clock, users, lookback_weeks, timezone_name, renderVars, queueVars, run_logs, last_run_at,
                   dbVars, commits, engineVars>>

\* lines 130-132: the engine returned; success is logged with its count; 200
FinishOk(r) ==
    /\ requests[r].at = "returned"
    /\ run_logs' = LogRunFinish(run_logs, requests[r].run_id, requests[r].count, TRUE,
                                "", clock)
    /\ requests' = [requests EXCEPT ![r].status = 200, ![r].at = "done"]
    /\ UNCHANGED <<clock, users, lookback_weeks, timezone_name, renderVars, queueVars, last_run_at, dbVars,
                   commits, engineVars>>

\* Variant: the except branch logs the run as a success.
FinishFailedAsOk(r) ==
    /\ requests[r].at = "raised"
    /\ run_logs' = LogRunFinish(run_logs, requests[r].run_id, 0, TRUE,
                                requests[r].error, clock)
    /\ requests' = [requests EXCEPT ![r].status = 500, ![r].at = "done"]
    /\ UNCHANGED <<clock, users, lookback_weeks, timezone_name, renderVars, queueVars, last_run_at, dbVars,
                   commits, engineVars>>

\* lines 133-135: the engine raised; failure is logged with count 0 and the
\* exception's text; 500
FinishFailed(r) ==
    /\ requests[r].at = "raised"
    /\ run_logs' = LogRunFinish(run_logs, requests[r].run_id, 0, FALSE,
                                requests[r].error, clock)
    /\ requests' = [requests EXCEPT ![r].status = 500, ![r].at = "done"]
    /\ UNCHANGED <<clock, users, lookback_weeks, timezone_name, renderVars, queueVars, last_run_at, dbVars,
                   commits, engineVars>>

InitApi ==
    /\ users = MixedUsers
    /\ lookback_weeks \in Lookbacks
    /\ timezone_name \in TimeZones
    /\ FreshEngine

NextApi ==
    \/ Tick
    \/ \E r \in Requests :
        \/ GateRefuses(r)
        \/ GatePasses(r)
        \/ StartRun(r)
        \/ EngineFormsPairs(r)
        \/ EngineReturnsZero(r)
        \/ EnginePersists(r)
        \/ EngineReturns(r)
        \/ EngineRaises(r)
        \/ FinishOk(r)
        \/ FinishFailed(r)

SpecApi == InitApi /\ [][NextApi]_vars

----------------------------------------------------------------------------
(* Properties of run_matching_now *)

\* the handler is inside its call of the engine
InEngine(r) == requests[r].at \in {"engine", "persist", "notify"}

\* the writes committed by the run that request r started
CommitsOf(r) == {c \in commits : c.run = requests[r].run_id}

\* C18: a handler whose cooldown check says that the minimum time since the
\* last run has not elapsed ends at once with status 429: in that step no
\* run_logs row is written and the pairings and weekly tables stay as they
\* are, the request has no run, and an ended handler does nothing more, so
\* the engine is never called for it.
C18_CooldownGate ==
    [][\A r \in Requests :
          /\ (/\ requests[r].at = "start"
              /\ requests'[r].at # "start"
              /\ ~CanRunNow(clock, last_run_at)) =>
                /\ requests'[r].at = "done"
                /\ requests'[r].status = 429
                /\ requests'[r].run_id = 0
                /\ UNCHANGED <<run_logs, last_run_at, pairings, weekly_matches, commits>>
          /\ requests[r].at = "done" => requests'[r] = requests[r]
          /\ requests'[r].status = 429 =>
                /\ requests'[r].run_id = 0
                /\ requests'[r].formed = {}
                /\ \A x \in DOMAIN run_logs' : run_logs'[x].triggered_by # r]_vars

\* a request was refused after another request's run had committed pairs
C18_Witness ==
    \E r, q \in Requests :
        /\ requests[r].status = 429
        /\ requests[q].status = 200
        /\ CommitsOf(q) # {}

\* C19 as stated: at most one handler is inside its call of the engine at
\* any time.
C19_OneRunAtATime == Cardinality({r \in Requests : InEngine(r)}) <= 1

----------------------------------------------------------------------------
(* Properties of the notifications, continued *)

\* C21 as stated: within one run at most one e-mail delivery is attempted
\* for a recipient, and a delivery that failed, of the template e-mail or of
\* the built-in one, is followed by no other delivery to the same recipient.
C21_FailedEmailTerminal ==
    \A u \in DOMAIN users :
        /\ Cardinality(EmailsTo(u)) <= 1
        /\ \A x, y \in EmailsTo(u) : (x < y) => sends[x].ok

\* the other member of the pair this run committed for u
PartnerOf(u) ==
    CHOOSE v \in ThisRunMembers :
        v # u /\ \E c \in commits : c.run = runs /\ c.pair = {u, v}

\* C22: a recipient whose template lookup found no template named
\* random_coffee is sent exactly one e-mail, the built-in one and no template
\* e-mail, built from the attributes the template would have been given and
\* describing the recipient's counterpart; the run does not raise for it.
C22_MissingTemplateFallback ==
    /\ \A x \in DOMAIN sends :
          (sends[x].kind = "fallback_email") => sends[x].content = TemplateVariables
    /\ (pc = "idle" /\ CommittedThisRun) =>
          \A u \in ThisRunMembers :
              (\E x \in EventsTo(u, "lookup") : sends[x].ok = "missing") =>
                  /\ Cardinality(EventsTo(u, "fallback_email")) = 1
                  /\ EventsTo(u, "template_email") = {}
                  /\ \A y \in EventsTo(u, "fallback_email") :
                        /\ sends[y].about = PartnerOf(u)
                        /\ \E x \in EventsTo(u, "lookup") : x < y
                  /\ result = Returned(Cardinality({c \in commits : c.run = runs}))

\* a run has returned in which a recipient's lookup found no template and
\* the built-in e-mail was delivered
C22_Witness ==
    /\ pc = "idle"
    /\ CommittedThisRun
    /\ \E u \in ThisRunMembers :
        /\ \E x \in EventsTo(u, "lookup") : sends[x].ok = "missing"
        /\ \E y \in EventsTo(u, "fallback_email") : sends[y].ok

\* an attempt to deliver a message, on either channel
IsSend(e) == e.kind \in {"chat", "template_email", "fallback_email"}

\* where an event stands in the order pair by pair, first member before
\* second, chat before e-mail
DispatchRank(e) ==
    LET x == CHOOSE y \in DOMAIN pairs : e.to \in {pairs[y][1], pairs[y][2]}
    IN  4 * x + 2 * (IF e.to = pairs[x][1] THEN 0 ELSE 1) + (IF e.kind = "chat" THEN 0 ELSE 1)

\* C23 as stated: the sends of a run happen one after the other, pair by
\* pair, first member's chat, first member's e-mail, second member's chat,
\* second member's e-mail, and between any two consecutive sends of the run
\* there is a delay.
C23_SequentialWithDelay ==
    pc \in NotifyPcs =>
        \A x, y \in DOMAIN sends :
            (x < y) =>
                /\ DispatchRank(sends[x]) <= DispatchRank(sends[y])
                /\ (IsSend(sends[x]) /\ IsSend(sends[y])) =>
                      \E z \in DOMAIN sends : x < z /\ z < y /\ sends[z].kind = "delay"

----------------------------------------------------------------------------
(* Properties of the persistence, continued *)

\* the day number of time t in the zone at offset tz
LocalDay(t, tz) == (t + tz) \div TicksPerDay

\* the number of the week, Monday to Sunday, that a day falls in
WeekOfDay(day) == day \div DaysPerWeek

\* wk is the Monday on or before the local date of time t
IsLocalMonday(wk, t) ==
    /\ wk % DaysPerWeek = 0
    /\ wk <= LocalDay(t, timezone_name)
    /\ LocalDay(t, timezone_name) - wk <= 6

\* C24: the week key of _persist_pairs is a Monday, on or at most six days
\* before the run's date in the configured time zone, so the Monday of the
\* local week also when the UTC date falls in another week; every pair of one
\* batch is written with the same key.
C24_WeekKeyLocalMonday ==
    /\ pc \in TxPcs =>
          /\ IsLocalMonday(week_monday, now)
          /\ WeekOfDay(week_monday) = WeekOfDay(LocalDay(now, timezone_name))
    /\ \A c \in commits : IsLocalMonday(c.week, c.at)
    /\ \A c, e \in commits : (c.run = e.run) => c.week = e.week
    /\ \A row \in BagToSet(weekly_matches) :
          \E c \in commits : c.week = row.week_date /\ c.pair = {row.user_a, row.user_b}

\* two pairs were committed by a run late on a Sunday in UTC, which is Monday
\* in the configured zone: the key is that Monday
C24_Witness ==
    /\ pc \in NotifyPcs
    /\ Len(pairs) = 2
    /\ WeekOfDay(LocalDay(now, 0)) # WeekOfDay(LocalDay(now, timezone_name))
    /\ \A c \in commits : (c.run = runs) => c.week = LocalDay(now, timezone_name)
    /\ Cardinality({c \in commits : c.run = runs}) = 2

----------------------------------------------------------------------------
(* render_template, email_sender.py lines 66-75.  A string is the sequence *)
(* of its characters.                                                      *)

MaxPieces == 3

\* f"{{{{{key}}}}}": two opening braces, the key, two closing braces
Placeholder(key) == <<"{", "{">> \o key \o <<"}", "}">>

\* str.replace(old, new) for a non-empty old: the occurrences of old, found
\* from the left and not overlapping, are replaced by new
RECURSIVE Replace(_, _, _)
Replace(str, old, new) ==
    IF Len(str) < Len(old) THEN str
    ELSE IF SubSeq(str, 1, Len(old)) = old
    THEN new \o Replace(SubSeq(str, Len(old) + 1, Len(str)), old, new)
    ELSE <<Head(str)>> \o Replace(Tail(str), old, new)

\* str(value) of a value that is a string
Str(value) == value

\* lines 71-75: one str.replace per item of the dict, in the dict's order,
\* each on the result of the one before
RECURSIVE RenderTemplate(_, _)
RenderTemplate(tpl, items) ==
    IF items = <<>> THEN tpl
    ELSE RenderTemplate(Replace(tpl, Placeholder(items[1][1]), Str(items[1][2])),
                        Tail(items))

\* The templates tried: up to MaxPieces pieces, each a placeholder of a key
\* that may be in the dict (a, b), a placeholder of a key that never is (c),
\* a letter, or a pair of braces on its own.
Pieces ==
    {Placeholder(<<"a">>), Placeholder(<<"b">>), Placeholder(<<"c">>),
     <<"Z">>, <<"{", "{">>, <<"}", "}">>}

RECURSIVE Concat(_)
Concat(ps) == IF ps = <<>> THEN <<>> ELSE Head(ps) \o Concat(Tail(ps))

Templates == {Concat(ps) : ps \in UNION {[1..m -> Pieces] : m \in 0..MaxPieces}}

Keys == {<<"a">>, <<"b">>}

\* The values tried: empty, a letter, the name of a key, a placeholder.
Values == {<<>>, <<"Z">>, <<"b">>, Placeholder(<<"b">>)}

\* The dicts tried, as the sequence of their items: no key twice.
Dicts ==
    {<<>>}
    \cup {<<<<ky, v>>>> : ky \in Keys, v \in Values}
    \cup {items \in {<<<<k1, v1>>, <<k2, v2>>>> : k1 \in Keys, k2 \in Keys,
                                                    v1 \in Values, v2 \in Values} :
              items[1][1] # items[2][1]}

InitRender ==
    /\ users = MixedUsers
    /\ lookback_weeks = 0
    /\ timezone_name = 0
    /\ NoRequests
    /\ NoQueue
    /\ EngineAtRest
    /\ template \in Templates
    /\ variables \in Dicts
    /\ rendered = NoResult

\* one call render_template(template, variables)
CallRenderTemplate ==
    /\ rendered = NoResult
    /\ rendered' = Returned(RenderTemplate(template, variables))
    /\ UNCHANGED <<clock, users, lookback_weeks, timezone_name, apiVars, queueVars,
                   template, variables, dbVars, commits, engineVars>>

NextRender == CallRenderTemplate

SpecRender == InitRender /\ [][NextRender]_vars

\* the value of key in the dict
ValueOf(key, items) == (CHOOSE x \in Range(items) : x[1] = key)[2]

\* the key of the dict whose placeholder str starts with, if any
KeysAtHead(str, items) ==
    {x[1] : x \in {y \in Range(items) :
                      /\ Len(Placeholder(y[1])) <= Len(str)
                      /\ SubSeq(str, 1, Len(Placeholder(y[1]))) = Placeholder(y[1])}}

\* The template with every placeholder of a key of the dict replaced by the
\* key's value and everything else as it is.
RECURSIVE Substituted(_, _)
Substituted(str, items) ==
    IF str = <<>> THEN <<>>
    ELSE IF KeysAtHead(str, items) # {}
    THEN LET key == CHOOSE ky \in KeysAtHead(str, items) : TRUE
         IN  ValueOf(key, items)
                 \o Substituted(SubSeq(str, Len(Placeholder(key)) + 1, Len(str)), items)
    ELSE <<Head(str)>> \o Substituted(Tail(str), items)

\* C25 as stated: render_template returns, it never raises, the template
\* with every {{name}} whose name is a key replaced by that key's value and
\* every other placeholder left as it is; with no variables that is the
\* template itself.
C25_RenderSubstitutes ==
    rendered # NoResult =>
        /\ rendered = Returned(Substituted(template, variables))
        /\ variables = <<>> => rendered = Returned(template)

----------------------------------------------------------------------------
(* Termination of a run *)

\* a step of the run under way: any step but the passing of time and the
\* start of a run
RunStep == pc # "idle" /\ Next /\ clock' = clock

\* Every call the run awaits returns or raises: the run under way goes on.
SpecRoutingFair == SpecRouting /\ WF_vars(RunStep)

\* C26: in the matching phase the anchor index only moves forward, by one
\* when an anchor is done, so every candidate is the anchor at most once; an
\* anchor whose options are exhausted, none being left or all recently
\* paired, stays unmatched, nothing is raised and the loop goes on with the
\* next candidate; and every run that has started ends, returning or
\* raising.
C26_MatchingCompletes ==
    /\ [][/\ (pc \in {"anchor", "walk"} /\ pc' \in {"anchor", "walk"}) =>
              /\ cand' = cand
              /\ i' = (IF pc' = "anchor" /\ (pc = "walk" \/ pc' = pc) /\ clock' = clock
                       THEN i + 1 ELSE i)
          /\ (pc = "walk" /\ k > Len(options) /\ clock' = clock) =>
              /\ pc' = "anchor"
              /\ i' = i + 1
              /\ assigned' = assigned
              /\ pairs' = pairs
              /\ result' = NoResult]_vars
    /\ (pc # "idle") ~> (pc = "idle")

\* an anchor's options were all recently paired with it and the loop went on
\* to the next candidate
C26_Witness ==
    /\ pc = "anchor"
    /\ rejected
    /\ i > 1
    /\ i <= Len(cand)
    /\ ~IsAssigned(cand[i - 1], assigned)

----------------------------------------------------------------------------
(* Properties of the matching phase, continued *)

\* the candidates no pair holds
Unmatched == Range(cand) \ Members(pairs)

\* C27: when the matching phase has ended, every two candidates that are
\* both left unmatched were recently paired with each other when the run
\* asked: the history check was made for them and found them recorded within
\* the lookback; so with the history as it is no pair of unmatched
\* candidates is compatible and not recently paired.
C27_Maximal ==
    LoopDone =>
        \A p \in PairsOver(Unmatched) :
            /\ \E x \in refused :
                  /\ x.pair = p
                  /\ x.at <= clock
                  /\ ~AllowedAt(p, x.at)
            /\ ~(\A t \in 0..clock : AllowedAt(p, t))

\* four candidates: one pair was formed and the two others, who came later
\* in the order, were recently paired with each other and stay unmatched
C27_Witness ==
    /\ LoopDone
    /\ Len(cand) = 4
    /\ Len(pairs) = 1
    /\ Cardinality(Unmatched) = 2
    /\ refused # {}

\* C28: the matching phase writes nothing: while the run is in it the two
\* tables stay as they are, no transaction is open or has been opened, nothing
\* has been sent and nothing of this run is committed, so its history checks
\* see the history of before the run; a run that formed no pair returns 0
\* from there, with all of that still so.
C28_NoPairNoEffect ==
    /\ [](pc \in {"anchor", "walk"} =>
            /\ tx = NoTx
            /\ txBegin = NoTx
            /\ sends = <<>>
            /\ ~CommittedThisRun)
    /\ []((pc = "idle" /\ result = Returned(0)) =>
            /\ tx = NoTx
            /\ txBegin = NoTx
            /\ sends = <<>>
            /\ ~CommittedThisRun)
    /\ [][/\ pc \in {"anchor", "walk"} =>
                UNCHANGED <<pairings, weekly_matches, commits>>
          /\ (pc = "anchor" /\ i > Len(cand) /\ pairs = <<>> /\ clock' = clock) =>
                pc' = "idle" /\ result' = Returned(0)
          /\ (pc # "idle" /\ pc' = "idle" /\ result' = Returned(0)) =>
                pc = "anchor" /\ pairs = <<>>]_vars

\* a run with two or more candidates, all of whose possible pairs were
\* rejected by the history check, is about to return 0
C28_Witness ==
    /\ LoopDone
    /\ pairs = <<>>
    /\ Len(cand) >= 2
    /\ Cardinality(refused) = Cardinality(PairsOver(Range(cand)))
    /\ pairings # {}

----------------------------------------------------------------------------
(* Properties of the notifications, continued *)

\* the stored communication_mode is set and is none of the three recognised
UnrecognisedMode(u) ==
    users[u].communication_mode \notin {None, "telegram_only", "email_only", "email+telegram"}

\* C29: nothing is attempted, on either channel, for a recipient whose
\* stored communication_mode is a value the code does not recognise; the
\* pair is committed and counted all the same, and the counterpart gets what
\* the counterpart's own mode asks for.
C29_UnrecognisedModeSilent ==
    /\ \A x \in DOMAIN sends : ~UnrecognisedMode(sends[x].to)
    /\ (pc = "idle" /\ CommittedThisRun) =>
          \A u \in ThisRunMembers :
              UnrecognisedMode(u) =>
                  /\ \E c \in commits : c.run = runs /\ u \in c.pair
                  /\ \E r \in pairings :
                        u \in {r.user_a, r.user_b} /\ PartnerOf(u) \in {r.user_a, r.user_b}
                  /\ result = Returned(Cardinality({c \in commits : c.run = runs}))
                  /\ Cardinality(EventsTo(PartnerOf(u), "chat"))
                        = (IF WantsChat(PartnerOf(u)) THEN 1 ELSE 0)
                  /\ Cardinality(EventsTo(PartnerOf(u), "lookup"))
                        = (IF WantsEmail(PartnerOf(u)) THEN 1 ELSE 0)

\* a run has paired a user of unrecognised mode, with an address on file,
\* with one of mode email+telegram, who got the chat message and the e-mail
C29_Witness ==
    /\ pc = "idle"
    /\ result = Returned(1)
    /\ \E u \in ThisRunMembers :
        /\ UnrecognisedMode(u)
        /\ users[u].email
        /\ users[PartnerOf(u)].communication_mode = "email+telegram"
        /\ ChatDelivered(PartnerOf(u))
        /\ EmailDelivered(PartnerOf(u))

----------------------------------------------------------------------------
(* The file queue between the backend and the bot: two processes, one file *)

\* the number of actions the backend enqueues
MaxActions == 3

\* how often action a occurs in the list
Occurrences(a, list) == Cardinality({x \in DOMAIN list : list[x] = a})

InitQueue ==
    /\ users = MixedUsers
    /\ lookback_weeks = 0
    /\ timezone_name = 0
    /\ NoRequests
    /\ NoRender
    /\ NoQueue
    /\ EngineAtRest

\* backend.py 112-116: a call of enqueue_action; the calls of one backend
\* follow each other, the coroutine never awaits
EnqueueCall ==
    /\ backend.at = "idle"
    /\ backend.done < MaxActions
    /\ backend' = [backend EXCEPT !.at = "read", !.item = backend.done + 1, !.queue = <<>>]
    /\ UNCHANGED <<queue_file, bot, processed>>
    /\ UNCHANGED <<clock, users, lookback_weeks, timezone_name, apiVars, renderVars,
                   dbVars, commits, engineVars>>

\* lines 117-122: the whole file is read; a file that is missing, or empty
\* and so not JSON, gives the empty list
EnqueueRead ==
    /\ backend.at = "read"
    /\ backend' = [backend EXCEPT !.at = "open",
                                  !.queue = IF queue_file.exists THEN queue_file.content
                                            ELSE <<>>]
    /\ UNCHANGED <<queue_file, bot, processed>>
    /\ UNCHANGED <<clock, users, lookback_weeks, timezone_name, apiVars, renderVars,
                   dbVars, commits, engineVars>>

\* lines 123-124: the action is appended to the list read; open(.., "w")
\* creates the file or cuts it to nothing
EnqueueOpen ==
    /\ backend.at = "open"
    /\ backend' = [backend EXCEPT !.at = "dump", !.queue = Append(backend.queue, backend.item)]
    /\ queue_file' = [exists |-> TRUE, content |-> <<>>]
    /\ UNCHANGED <<bot, processed>>
    /\ UNCHANGED <<clock, users, lookback_weeks, timezone_name, apiVars, renderVars,
                   dbVars, commits, engineVars>>

\* lines 125-126: the list is written from the start of the file and the
\* file closed; the action is enqueued
EnqueueDump ==
    /\ backend.at = "dump"
    /\ queue_file' = [exists |-> TRUE, content |-> backend.queue]
    /\ backend' = [backend EXCEPT !.at = "idle", !.done = backend.item, !.queue = <<>>]
    /\ UNCHANGED <<bot, processed>>
    /\ UNCHANGED <<clock, users, lookback_weeks, timezone_name, apiVars, renderVars,
                   dbVars, commits, engineVars>>

\* client.py 1387-1397: after the sleep, the whole file is read if there is
\* one; without a file the bot sleeps again (line 1414)
PollRead ==
    /\ bot.at = "sleep"
    /\ bot' = IF queue_file.exists
              THEN [at |-> "truncate", current_queue |-> queue_file.content]
              ELSE bot
    /\ UNCHANGED <<queue_file, backend, processed>>
    /\ UNCHANGED <<clock, users, lookback_weeks, timezone_name, apiVars, renderVars,
                   dbVars, commits, engineVars>>

\* lines 1398-1399: seek(0), truncate(); whatever the file holds by now is
\* cut off.  Lines 1413-1414: with nothing read the bot sleeps again
PollTruncate ==
    /\ bot.at = "truncate"
    /\ queue_file' = [queue_file EXCEPT !.content = <<>>]
    /\ bot' = [bot EXCEPT !.at = IF bot.current_queue = <<>> THEN "sleep" ELSE "process"]
    /\ UNCHANGED <<backend, processed>>
    /\ UNCHANGED <<clock, users, lookback_weeks, timezone_name, apiVars, renderVars,
                   dbVars, commits, engineVars>>

\* lines 1417-1421: the next item of current_queue is processed; after the
\* last one the loop is back at its sleep
PollProcess ==
    /\ bot.at = "process"
    /\ processed' = Append(processed, Head(bot.current_queue))
    /\ bot' = [at |-> IF Len(bot.current_queue) = 1 THEN "sleep" ELSE "process",
               current_queue |-> Tail(bot.current_queue)]
    /\ UNCHANGED <<queue_file, backend>>
    /\ UNCHANGED <<clock, users, lookback_weeks, timezone_name, apiVars, renderVars,
                   dbVars, commits, engineVars>>

NextQueue ==
    \/ EnqueueCall
    \/ EnqueueRead
    \/ EnqueueOpen
    \/ EnqueueDump
    \/ PollRead
    \/ PollTruncate
    \/ PollProcess

SpecQueue == InitQueue /\ [][NextQueue]_vars

\* the actions whose enqueue_action has written the file and returned
Enqueued == 1..backend.done

\* action a is still on its way: in the file, in the list the bot has read, or
\* in the list an enqueue is about to write
Pending(a) ==
    \/ a \in Range(queue_file.content)
    \/ a \in Range(bot.current_queue)
    \/ backend.at = "dump" /\ a \in Range(backend.queue)

\* no action is processed twice
AtMostOnce == \A a \in 1..MaxActions : Occurrences(a, processed) <= 1

\* no enqueued action is lost: each is processed or still on its way
NoneLost == \A a \in Enqueued : Occurrences(a, processed) >= 1 \/ Pending(a)

\* C30: every enqueued action reaches the bot's processing loop exactly once,
\* whatever the interleaving of the file reads, truncations and writes of the
\* two processes: none is processed twice, and none is lost.
C30_ExactlyOnce == AtMostOnce /\ NoneLost

====
